---------------------------- MODULE Spec2Model ----------------------------
(***************************************************************************)
(* The outbound message queue of go-filecoin (core/message_queue.go): a    *)
(* map from sender address to a list of queued messages in nonce order,    *)
(* guarded by one readers/writer lock, publishing a size gauge and an      *)
(* oldest-stamp gauge from a deferred hook at the exit of every mutator.   *)
(***************************************************************************)
EXTENDS Integers, Sequences, FiniteSets, TLC

(***************************************************************************)
(* Bounds of the model.                                                    *)
(***************************************************************************)
\* Nonces are types.Uint64: arithmetic on them is modulo 2^64.  The model
\* keeps the wrap-around and scales the modulus down to NonceMod.
NonceMod == 3
\* Stamps are uint64 as well; the model's stamps are 0..MaxStamp, MaxStamp
\* standing for 1<<64 - 1.
MaxStamp == 1
\* The most messages the queue holds at a time, all senders together.
MaxSize == 2
\* The most the expire counter is followed up to (SpecCounted).
MaxExpired == 3

Senders == {"a", "b"}
Threads == {"t1", "t2"}
NoThread == "none"
Nonces == 0 .. (NonceMod - 1)
Stamps == 0 .. MaxStamp
\* The smallest and the largest stamp.
EdgeStamps == {0, MaxStamp}

VARIABLES
    queues,      \* mq.queues: a map, modelled as a function whose DOMAIN is the key set
    mqSizeGa,    \* the last value set on the message_queue_size gauge
    mqOldestGa,  \* the last value set on the message_queue_oldest gauge
    last,        \* the call that returned last: operation, arguments, results
    pre,         \* mq.queues as it was when that call started
    before,      \* the call that returned just before `last` and the map it started from,
                 \* kept when `last` is a RemoveNext for the same sender and nonce
    lk,          \* mq.lk: the thread holding it exclusively (or NoThread), and the
                 \* set of threads holding it shared
    th,          \* per thread: where it is in a mutator call, and the value it
                 \* has read for a gauge
    view,        \* the slice the caller got from its last List call and still
                 \* holds: the sender, the slice as returned, the slice as it is now
    mqExpireCt,  \* the sum of the increments of the message_queue_expire counter
    expiredReturned,  \* the number of messages returned in ExpireBefore's maps so far
                 \* (both sums are kept under SpecCounted; under the other
                 \* specifications a call's increments are in last.inc)
    sent,        \* per sender, the messages enqueued with success, in order
    got,         \* per sender, the messages RemoveNext returned with found = true
                 \* (sent and got are kept under SpecFlow)
    cs           \* per thread, the locals of the critical section it is in:
                 \* the call and its arguments, the list q it has read, the
                 \* senders ExpireBefore's loop has yet to visit, and the map
                 \* the call would leave if it ran alone (kept under SpecSteps)

vars == <<queues, mqSizeGa, mqOldestGa, last, pre, before, lk, th, view,
          mqExpireCt, expiredReturned, sent, got, cs>>
hist == <<last, pre, before>>
conc == <<lk, th>>
counted == <<mqExpireCt, expiredReturned>>
flow == <<sent, got>>

(***************************************************************************)
(* Values.                                                                 *)
(***************************************************************************)
\* A *types.SignedMessage, as far as the queue reads it: From and Nonce.
SignedMessage(s, n) == [From |-> s, Nonce |-> n]
\* The nil *types.SignedMessage.
NilMsg == [From |-> "nil", Nonce |-> 0]
QueuedMessage(m, st) == [Msg |-> m, Stamp |-> st]

\* Uint64 arithmetic on nonces.
NoncePlusOne(n) == (n + 1) % NonceMod
NonceMinusOne(n) == (n + NonceMod - 1) % NonceMod

\* int64(x) of a uint64 stamp x: the upper half of the range turns negative.
ToInt64(x) == IF 2 * x >= MaxStamp + 1 THEN x - (MaxStamp + 1) ELSE x

(***************************************************************************)
(* The Go map.                                                             *)
(***************************************************************************)
EmptyMap == [k \in {} |-> <<>>]
\* mq.queues[s]: the nil slice for a missing key.
Lookup(qs, s) == IF s \in DOMAIN qs THEN qs[s] ELSE <<>>
\* mq.queues[s] = v
Put(qs, s, v) == [k \in DOMAIN qs \cup {s} |-> IF k = s THEN v ELSE qs[k]]
\* delete(mq.queues, s)
Delete(qs, s) == [k \in DOMAIN qs \ {s} |-> qs[k]]

Front(q) == q[1]
Back(q) == q[Len(q)]


(***************************************************************************)
(* The critical sections of the mutators: what each does to the map        *)
(* between mq.lk.Lock() and mq.lk.Unlock(), and what it returns.           *)
(***************************************************************************)
\* Enqueue storing the new message alone, in place of the list.
EnqueueBodyOverwrites(qs, s, n, st) ==
    LET q == Lookup(qs, s) IN
    IF Len(q) > 0 /\ n # NoncePlusOne(Back(q).Msg.Nonce)
    THEN [queues |-> qs, err |-> "NonceGap"]
    ELSE [queues |-> Put(qs, s, <<QueuedMessage(SignedMessage(s, n), st)>>),
          err |-> "none"]

\* Enqueue: q non-empty and msg.Nonce # back + 1 (in uint64) is an error,
\* else append.
EnqueueBody(qs, s, n, st) ==
    LET q == Lookup(qs, s) IN
    IF Len(q) > 0 /\ n # NoncePlusOne(Back(q).Msg.Nonce)
    THEN [queues |-> qs, err |-> "NonceGap"]
    ELSE [queues |-> Put(qs, s, Append(q, QueuedMessage(SignedMessage(s, n), st))),
          err |-> "none"]

\* Requeue that stamps the whole list with the new message's stamp.
RequeueBodyRestamps(qs, s, n, st) ==
    LET q == Lookup(qs, s) IN
    IF Len(q) > 0 /\ n # NonceMinusOne(Front(q).Msg.Nonce)
    THEN [queues |-> qs, err |-> "NonceGap"]
    ELSE [queues |-> Put(qs, s, <<QueuedMessage(SignedMessage(s, n), st)>>
                                   \o [i \in 1 .. Len(q) |-> QueuedMessage(q[i].Msg, st)]),
          err |-> "none"]

\* Requeue: q non-empty and msg.Nonce # front - 1 (in uint64) is an error,
\* else prepend.
RequeueBody(qs, s, n, st) ==
    LET q == Lookup(qs, s) IN
    IF Len(q) > 0 /\ n # NonceMinusOne(Front(q).Msg.Nonce)
    THEN [queues |-> qs, err |-> "NonceGap"]
    ELSE [queues |-> Put(qs, s, <<QueuedMessage(SignedMessage(s, n), st)>> \o q),
          err |-> "none"]

\* RemoveNext with the comparison against the head turned round: the error
\* when the expected nonce is smaller than the head's.
RemoveNextBodyFlipped(qs, s, n) ==
    LET q == Lookup(qs, s) IN
    IF Len(q) > 0
    THEN IF n = Front(q).Msg.Nonce
         THEN [queues |-> Put(qs, s, Tail(q)), msg |-> Front(q).Msg,
               found |-> TRUE, err |-> "none"]
         ELSE IF n < Front(q).Msg.Nonce
              THEN [queues |-> qs, msg |-> NilMsg, found |-> FALSE,
                    err |-> "Inconsistency"]
              ELSE [queues |-> qs, msg |-> NilMsg, found |-> FALSE, err |-> "none"]
    ELSE [queues |-> qs, msg |-> NilMsg, found |-> FALSE, err |-> "none"]

\* RemoveNext returning the head without popping it.
RemoveNextBodyNoPop(qs, s, n) ==
    LET q == Lookup(qs, s) IN
    IF Len(q) > 0
    THEN IF n = Front(q).Msg.Nonce
         THEN [queues |-> qs, msg |-> Front(q).Msg, found |-> TRUE, err |-> "none"]
         ELSE IF n > Front(q).Msg.Nonce
              THEN [queues |-> qs, msg |-> NilMsg, found |-> FALSE,
                    err |-> "Inconsistency"]
              ELSE [queues |-> qs, msg |-> NilMsg, found |-> FALSE, err |-> "none"]
    ELSE [queues |-> qs, msg |-> NilMsg, found |-> FALSE, err |-> "none"]

\* RemoveNext: pop the head when it bears the expected nonce; an error when
\* the expected nonce is greater than the head's.
RemoveNextBody(qs, s, n) ==
    LET q == Lookup(qs, s) IN
    IF Len(q) > 0
    THEN IF n = Front(q).Msg.Nonce
         THEN [queues |-> Put(qs, s, Tail(q)), msg |-> Front(q).Msg,
               found |-> TRUE, err |-> "none"]
         ELSE IF n > Front(q).Msg.Nonce
              THEN [queues |-> qs, msg |-> NilMsg, found |-> FALSE,
                    err |-> "Inconsistency"]
              ELSE [queues |-> qs, msg |-> NilMsg, found |-> FALSE, err |-> "none"]
    ELSE [queues |-> qs, msg |-> NilMsg, found |-> FALSE, err |-> "none"]

\* Clear reporting whether the key was in the map, not whether its list was
\* non-empty.
ClearBodyKeyPresent(qs, s) ==
    [queues |-> Delete(qs, s), ret |-> s \in DOMAIN qs]

\* Clear: delete the key; report whether its list was non-empty.
ClearBody(qs, s) ==
    [queues |-> Delete(qs, s), ret |-> Len(Lookup(qs, s)) > 0]

\* ExpireBefore expiring on any stamp of the list, not the first alone.
ExpiringAnyStamp(qs, stamp) ==
    {s \in DOMAIN qs : \E i \in 1 .. Len(qs[s]) : qs[s][i].Stamp < stamp}

\* The senders ExpireBefore expires: a non-empty list whose first stamp is
\* below the threshold.
Expiring(qs, stamp) ==
    {s \in DOMAIN qs : Len(qs[s]) > 0 /\ Front(qs[s]).Stamp < stamp}

\* ExpireBefore with mqExpireCt.Inc called once per expiring sender with 1.
ExpireBeforeBodyIncOne(qs, stamp) ==
    LET ex == Expiring(qs, stamp) IN
    [queues |-> [s \in DOMAIN qs |-> IF s \in ex THEN <<>> ELSE qs[s]],
     expired |-> [s \in ex |-> [i \in 1 .. Len(qs[s]) |-> qs[s][i].Msg]],
     inc |-> [s \in ex |-> 1]]

\* ExpireBefore: every expiring sender's messages go to the returned map, in
\* list order, and its list is replaced by an empty one (the key stays);
\* mqExpireCt is incremented by len(q) once per expiring sender.  Each sender
\* is handled on its own, so the map's iteration order does not show.
ExpireBeforeBody(qs, stamp) ==
    LET ex == Expiring(qs, stamp) IN
    [queues |-> [s \in DOMAIN qs |-> IF s \in ex THEN <<>> ELSE qs[s]],
     expired |-> [s \in ex |-> [i \in 1 .. Len(qs[s]) |-> qs[s][i].Msg]],
     inc |-> [s \in ex |-> Len(qs[s])]]

(***************************************************************************)
(* The accessors.                                                          *)
(***************************************************************************)
\* LargestNonce: (back nonce, true), or (0, false) for an empty list.
LargestNonce(qs, s) ==
    LET q == Lookup(qs, s) IN
    IF Len(q) > 0 THEN [largest |-> Back(q).Msg.Nonce, found |-> TRUE]
                  ELSE [largest |-> 0, found |-> FALSE]

\* Queues: the keys of the map (as a set: the order is not defined).
Queues(qs) == DOMAIN qs

RECURSIVE SumLen(_, _)
SumLen(qs, ks) ==
    IF ks = {} THEN 0
    ELSE LET k == CHOOSE x \in ks : TRUE IN Len(qs[k]) + SumLen(qs, ks \ {k})

\* Size counting the keys of the map, not the messages.
SizeCountsKeys(qs) == Cardinality(DOMAIN qs)

\* Size: the sum of len(q) over the map.
Size(qs) == SumLen(qs, DOMAIN qs)

\* The stamps of all queued messages.
StampsOf(qs) ==
    UNION {{qs[s][i].Stamp : i \in 1 .. Len(qs[s])} : s \in DOMAIN qs}

Min(S) == CHOOSE x \in S : \A y \in S : x <= y

\* Oldest: 0 when the map has no key; else the scan, which starts from the
\* largest uint64 and lowers it to every smaller stamp it meets.
Oldest(qs) ==
    IF DOMAIN qs = {} THEN 0 ELSE Min(StampsOf(qs) \cup {MaxStamp})

\* List: a new slice holding a copy of each QueuedMessage struct.
List(qs, s) ==
    LET q == Lookup(qs, s) IN [i \in 1 .. Len(q) |-> q[i]]

(***************************************************************************)
(* The record of a call: operation, arguments and results.                 *)
(***************************************************************************)
Call(op, s, n, st, err, found, msg, ok, expired, inc) ==
    [op |-> op, sender |-> s, nonce |-> n, stamp |-> st, err |-> err,
     found |-> found, msg |-> msg, ok |-> ok, expired |-> expired, inc |-> inc]

NoCall == Call("new", "nil", 0, 0, "none", FALSE, NilMsg, FALSE, EmptyMap, EmptyMap)
NoBefore == [call |-> NoCall, pre |-> EmptyMap]
\* The call of an accessor.  An accessor leaves the map as it is, so what it
\* returned is its value on queues in the state the call leaves.
Read(op, s) == Call(op, s, 0, 0, "none", FALSE, NilMsg, FALSE, EmptyMap, EmptyMap)
\* The locals of a critical section, and those of a thread that is in none.
Locals(op, s, n, st, q, todo, want) ==
    [op |-> op, sender |-> s, nonce |-> n, stamp |-> st, q |-> q, todo |-> todo,
     want |-> want]
NoLocals == Locals("none", "nil", 0, 0, <<>>, {}, EmptyMap)
\* No slice held.  Of a slice that is held, refs[i] is the index in the
\* sender's list of the message that list[i].Msg points to: List copies each
\* QueuedMessage struct, and with it the pointer Msg, not the message.
NoView == [sender |-> "nil", orig |-> <<>>, list |-> <<>>, refs |-> <<>>]

\* The deferred hook of every mutator, run by a caller that is alone:
\* mqSizeGa.Set(ctx, mq.Size()); mqOldestGa.Set(ctx, int64(mq.Oldest()))
Publish(qs) ==
    /\ mqSizeGa' = Size(qs)
    /\ mqOldestGa' = ToInt64(Oldest(qs))

\* NewMessageQueue
Init ==
    /\ queues = EmptyMap
    /\ mqSizeGa = 0
    /\ mqOldestGa = 0
    /\ last = NoCall
    /\ pre = EmptyMap
    /\ before = NoBefore
    /\ lk = [writer |-> NoThread, readers |-> {}]
    /\ th = [t \in Threads |-> [pc |-> "idle", v |-> 0]]
    /\ view = NoView
    /\ mqExpireCt = 0
    /\ expiredReturned = 0
    /\ sent = [s \in Senders |-> <<>>]
    /\ got = [s \in Senders |-> <<>>]
    /\ cs = [t \in Threads |-> NoLocals]

(***************************************************************************)
(* The mutators, each called by a caller that is alone: the critical       *)
(* section, then the deferred hook.                                        *)
(***************************************************************************)
Enqueue(s, n, st) ==
    LET r == EnqueueBody(queues, s, n, st) IN
    /\ Size(r.queues) <= MaxSize
    /\ queues' = r.queues
    /\ Publish(r.queues)
    /\ last' = Call("Enqueue", s, n, st, r.err, FALSE, NilMsg, FALSE, EmptyMap, EmptyMap)
    /\ pre' = queues
    /\ before' = NoBefore
    /\ view' = NoView
    /\ UNCHANGED <<conc, counted, flow, cs>>

Requeue(s, n, st) ==
    LET r == RequeueBody(queues, s, n, st) IN
    /\ Size(r.queues) <= MaxSize
    /\ queues' = r.queues
    /\ Publish(r.queues)
    /\ last' = Call("Requeue", s, n, st, r.err, FALSE, NilMsg, FALSE, EmptyMap, EmptyMap)
    /\ pre' = queues
    /\ before' = NoBefore
    /\ view' = NoView
    /\ UNCHANGED <<conc, counted, flow, cs>>

RemoveNext(s, n) ==
    LET r == RemoveNextBody(queues, s, n) IN
    /\ queues' = r.queues
    /\ Publish(r.queues)
    /\ last' = Call("RemoveNext", s, n, 0, r.err, r.found, r.msg, FALSE, EmptyMap, EmptyMap)
    /\ pre' = queues
    /\ before' = IF last.op \in {"Enqueue", "RemoveNext"} /\ last.sender = s /\ last.nonce = n
                 THEN [call |-> last, pre |-> pre]
                 ELSE NoBefore
    /\ view' = NoView
    /\ UNCHANGED <<conc, counted, flow, cs>>

Clear(s) ==
    LET r == ClearBody(queues, s) IN
    /\ queues' = r.queues
    /\ Publish(r.queues)
    /\ last' = Call("Clear", s, 0, 0, "none", FALSE, NilMsg, r.ret, EmptyMap, EmptyMap)
    /\ pre' = queues
    /\ before' = NoBefore
    /\ view' = NoView
    /\ UNCHANGED <<conc, counted, flow, cs>>

ExpireBeforeCall(stamp) ==
    LET r == ExpireBeforeBody(queues, stamp) IN
    /\ queues' = r.queues
    /\ Publish(r.queues)
    /\ last' = Call("ExpireBefore", "nil", 0, stamp, "none", FALSE, NilMsg, FALSE,
                    r.expired, r.inc)
    /\ pre' = queues
    /\ before' = NoBefore
    /\ view' = NoView
    /\ UNCHANGED <<conc, flow, cs>>

ExpireBefore(stamp) ==
    /\ ExpireBeforeCall(stamp)
    /\ UNCHANGED counted

\* The sum of f over its domain.
RECURSIVE SumOf(_)
SumOf(f) ==
    IF DOMAIN f = {} THEN 0
    ELSE LET s == CHOOSE x \in DOMAIN f : TRUE IN
         f[s] + SumOf([x \in DOMAIN f \ {s} |-> f[x]])

\* ExpireBefore with the counter's increments summed up in mqExpireCt and
\* the lengths of the returned lists in expiredReturned.
ExpireBeforeCounted(stamp) ==
    LET r == ExpireBeforeBody(queues, stamp) IN
    /\ mqExpireCt + SumOf(r.inc) <= MaxExpired
    /\ ExpireBeforeCall(stamp)
    /\ mqExpireCt' = mqExpireCt + SumOf(r.inc)
    /\ expiredReturned' =
          expiredReturned + SumOf([s \in DOMAIN r.expired |-> Len(r.expired[s])])

(***************************************************************************)
(* The accessors, each called by a caller that is alone.  They read the    *)
(* map under the lock and write nothing; List hands the caller a new slice.*)
(***************************************************************************)
Accessor(op, s) ==
    /\ last' = Read(op, s)
    /\ pre' = queues
    /\ before' = NoBefore
    /\ UNCHANGED <<queues, mqSizeGa, mqOldestGa, conc, counted, flow, cs>>

CallLargestNonce(s) == Accessor("LargestNonce", s) /\ view' = NoView
CallQueues == Accessor("Queues", "nil") /\ view' = NoView
CallSize == Accessor("Size", "nil") /\ view' = NoView
CallOldest == Accessor("Oldest", "nil") /\ view' = NoView
CallList(s) ==
    /\ Accessor("List", s)
    /\ view' = [sender |-> s, orig |-> List(queues, s), list |-> List(queues, s),
                refs |-> [i \in 1 .. Len(List(queues, s)) |-> i]]

Next ==
    \/ \E s \in Senders, n \in Nonces, st \in Stamps : Enqueue(s, n, st)
    \/ \E s \in Senders, n \in Nonces, st \in Stamps : Requeue(s, n, st)
    \/ \E s \in Senders, n \in Nonces : RemoveNext(s, n)
    \/ \E s \in Senders : Clear(s)
    \/ \E s \in Senders : CallLargestNonce(s)
    \/ CallQueues
    \/ CallSize
    \/ CallOldest
    \/ \E s \in Senders : CallList(s)
    \/ \E stamp \in Stamps : ExpireBefore(stamp)

Spec == Init /\ [][Next]_vars

(***************************************************************************)
(* The mutators with the expire counter summed up.  Of the calls, only     *)
(* ExpireBefore's arguments and results are recorded here: the others do   *)
(* not call mqExpireCt.Inc and return no expired messages.                 *)
(***************************************************************************)
Effect(qs) ==
    /\ Size(qs) <= MaxSize
    /\ queues' = qs
    /\ Publish(qs)
    /\ last' = NoCall
    /\ pre' = EmptyMap
    /\ before' = NoBefore
    /\ view' = NoView
    /\ UNCHANGED <<conc, counted, flow, cs>>

EnqueueEffect(s, n, st) == Effect(EnqueueBody(queues, s, n, st).queues)
RequeueEffect(s, n, st) == Effect(RequeueBody(queues, s, n, st).queues)
RemoveNextEffect(s, n) == Effect(RemoveNextBody(queues, s, n).queues)
ClearEffect(s) == Effect(ClearBody(queues, s).queues)

NextCounted ==
    \/ \E s \in Senders, n \in Nonces, st \in Stamps : EnqueueEffect(s, n, st)
    \/ \E s \in Senders, n \in Nonces, st \in Stamps : RequeueEffect(s, n, st)
    \/ \E s \in Senders, n \in Nonces : RemoveNextEffect(s, n)
    \/ \E s \in Senders : ClearEffect(s)
    \/ \E stamp \in Stamps : ExpireBeforeCounted(stamp)

SpecCounted == Init /\ [][NextCounted]_vars

(***************************************************************************)
(* What the caller of List can do with the slice it got, before any other  *)
(* call: the slice and the QueuedMessage structs in it are the caller's    *)
(* own, the messages behind the Msg pointers are the queue's.              *)
(***************************************************************************)
Holding == view # NoView /\ view.list # <<>>

WithoutIndex(seq, i) == SubSeq(seq, 1, i - 1) \o SubSeq(seq, i + 1, Len(seq))
Reversed(seq) == [i \in 1 .. Len(seq) |-> seq[Len(seq) + 1 - i]]

CallerKeeps == UNCHANGED <<queues, mqSizeGa, mqOldestGa, hist, conc, counted, flow, cs>>

\* out[i].Stamp = st
CallerSetStamp(i, st) ==
    /\ Holding /\ i \in 1 .. Len(view.list)
    /\ view.list[i].Stamp # st
    /\ view' = [view EXCEPT !.list[i].Stamp = st]
    /\ CallerKeeps

\* out = append(out[:i], out[i+1:]...)
CallerRemove(i) ==
    /\ Holding /\ i \in 1 .. Len(view.list)
    /\ view' = [view EXCEPT !.list = WithoutIndex(@, i), !.refs = WithoutIndex(@, i)]
    /\ CallerKeeps

\* the slice put in the opposite order
CallerReorder ==
    /\ Holding /\ Len(view.list) > 1
    /\ view' = [view EXCEPT !.list = Reversed(@), !.refs = Reversed(@)]
    /\ CallerKeeps

\* out[i] = &QueuedMessage{Msg: a new message, Stamp: st}
CallerReplace(i, n, st) ==
    /\ Holding /\ i \in 1 .. Len(view.list)
    /\ view.refs[i] # 0
    /\ view' = [view EXCEPT !.list[i] = QueuedMessage(SignedMessage(view.sender, n), st),
                            !.refs[i] = 0]
    /\ CallerKeeps

\* out[i].Msg.Nonce = n: a write to the message the queue's entry points to
\* as well.
CallerSetNonce(i, n) ==
    /\ Holding /\ i \in 1 .. Len(view.list)
    /\ view.list[i].Msg.Nonce # n
    /\ view' = [view EXCEPT !.list[i].Msg.Nonce = n]
    /\ IF view.refs[i] = 0
       THEN UNCHANGED queues
       ELSE queues' = [queues EXCEPT ![view.sender][view.refs[i]].Msg.Nonce = n]
    /\ UNCHANGED <<mqSizeGa, mqOldestGa, hist, conc, counted, flow, cs>>

NextList ==
    \/ Next
    \/ \E i \in 1 .. MaxSize, st \in Stamps : CallerSetStamp(i, st)
    \/ \E i \in 1 .. MaxSize : CallerRemove(i)
    \/ CallerReorder
    \/ \E i \in 1 .. MaxSize, n \in Nonces, st \in Stamps : CallerReplace(i, n, st)
    \/ \E i \in 1 .. MaxSize, n \in Nonces : CallerSetNonce(i, n)

SpecList == Init /\ [][NextList]_vars

(***************************************************************************)
(* The mutators called from several threads: each call is the steps of     *)
(*     defer func() { mqSizeGa.Set(ctx, mq.Size())                         *)
(*                    mqOldestGa.Set(ctx, int64(mq.Oldest())) }()          *)
(*     mq.lk.Lock(); defer mq.lk.Unlock(); <critical section>              *)
(* Deferred calls run last-in first-out: the Unlock, then the hook, whose  *)
(* Size takes the lock shared and whose Oldest takes it exclusively.       *)
(* sync.RWMutex: Lock waits until no thread holds the lock, RLock until no *)
(* thread holds it exclusively.                                            *)
(***************************************************************************)
At(t, pc) == th[t].pc = pc
Goto(t, pc) == th' = [th EXCEPT ![t].pc = pc]
GotoWith(t, pc, v) == th' = [th EXCEPT ![t] = [pc |-> pc, v |-> v]]
LockFree == lk.writer = NoThread /\ lk.readers = {}

\* A thread enters a mutator.
Start(t) ==
    /\ At(t, "idle")
    /\ Goto(t, "Lock")
    /\ UNCHANGED <<queues, mqSizeGa, mqOldestGa, lk, hist, view, counted, flow, cs>>

\* A mutator that goes on without waiting for the lock.
LockNoWait(t) ==
    /\ At(t, "Lock")
    /\ lk' = [lk EXCEPT !.writer = t]
    /\ Goto(t, "Body")
    /\ UNCHANGED <<queues, mqSizeGa, mqOldestGa, hist, view, counted, flow, cs>>

\* mq.lk.Lock() of the mutator
Lock(t) ==
    /\ At(t, "Lock")
    /\ LockFree
    /\ lk' = [lk EXCEPT !.writer = t]
    /\ Goto(t, "Body")
    /\ UNCHANGED <<queues, mqSizeGa, mqOldestGa, hist, view, counted, flow, cs>>

\* The critical section of a call, the map going from queues to qs.
Critical(t, qs) ==
    /\ At(t, "Body")
    /\ Size(qs) <= MaxSize
    /\ queues' = qs
    /\ Goto(t, "Unlock")
    /\ UNCHANGED <<mqSizeGa, mqOldestGa, lk, hist, view, counted, flow, cs>>

LockedEnqueue(t, s, n, st) == Critical(t, EnqueueBody(queues, s, n, st).queues)
LockedRequeue(t, s, n, st) == Critical(t, RequeueBody(queues, s, n, st).queues)
LockedRemoveNext(t, s, n) == Critical(t, RemoveNextBody(queues, s, n).queues)
LockedClear(t, s) == Critical(t, ClearBody(queues, s).queues)
LockedExpireBefore(t, stamp) == Critical(t, ExpireBeforeBody(queues, stamp).queues)

\* A mutator whose hook runs before its lock is released: the thread goes on
\* to the hook still holding the lock.
UnlockAfterHook(t) ==
    /\ At(t, "Unlock")
    /\ cs' = [cs EXCEPT ![t] = NoLocals]
    /\ Goto(t, "SizeRLock")
    /\ UNCHANGED <<queues, mqSizeGa, mqOldestGa, lk, hist, view, counted, flow>>

\* The deferred mq.lk.Unlock() of the mutator, whose locals are gone.
Unlock(t) ==
    /\ At(t, "Unlock")
    /\ lk' = [lk EXCEPT !.writer = NoThread]
    /\ cs' = [cs EXCEPT ![t] = NoLocals]
    /\ Goto(t, "SizeRLock")
    /\ UNCHANGED <<queues, mqSizeGa, mqOldestGa, hist, view, counted, flow>>

\* The hook's mq.Size(): mq.lk.RLock() ...
SizeRLock(t) ==
    /\ At(t, "SizeRLock")
    /\ lk.writer = NoThread
    /\ lk' = [lk EXCEPT !.readers = @ \cup {t}]
    /\ Goto(t, "SizeRUnlock")
    /\ UNCHANGED <<queues, mqSizeGa, mqOldestGa, hist, view, counted, flow, cs>>

\* ... the sum, and the deferred mq.lk.RUnlock()
SizeRUnlock(t) ==
    /\ At(t, "SizeRUnlock")
    /\ lk' = [lk EXCEPT !.readers = @ \ {t}]
    /\ GotoWith(t, "SetSize", Size(queues))
    /\ UNCHANGED <<queues, mqSizeGa, mqOldestGa, hist, view, counted, flow, cs>>

\* mqSizeGa.Set(ctx, <the size read>)
SetSize(t) ==
    /\ At(t, "SetSize")
    /\ mqSizeGa' = th[t].v
    /\ GotoWith(t, "OldestLock", 0)
    /\ UNCHANGED <<queues, mqOldestGa, lk, hist, view, counted, flow, cs>>

\* The hook's mq.Oldest(): mq.lk.Lock() ...
OldestLock(t) ==
    /\ At(t, "OldestLock")
    /\ LockFree
    /\ lk' = [lk EXCEPT !.writer = t]
    /\ Goto(t, "OldestUnlock")
    /\ UNCHANGED <<queues, mqSizeGa, mqOldestGa, hist, view, counted, flow, cs>>

\* ... the scan, and the deferred mq.lk.Unlock()
OldestUnlock(t) ==
    /\ At(t, "OldestUnlock")
    /\ lk' = [lk EXCEPT !.writer = NoThread]
    /\ GotoWith(t, "SetOldest", Oldest(queues))
    /\ UNCHANGED <<queues, mqSizeGa, mqOldestGa, hist, view, counted, flow, cs>>

\* mqOldestGa.Set(ctx, int64(<the stamp read>)), and the call returns.
SetOldest(t) ==
    /\ At(t, "SetOldest")
    /\ mqOldestGa' = ToInt64(th[t].v)
    /\ GotoWith(t, "idle", 0)
    /\ UNCHANGED <<queues, mqSizeGa, lk, hist, view, counted, flow, cs>>

NextConc ==
    \E t \in Threads :
        \/ Start(t)
        \/ Lock(t)
        \/ \E s \in Senders, n \in Nonces, st \in Stamps : LockedEnqueue(t, s, n, st)
        \/ \E s \in Senders, n \in Nonces, st \in Stamps : LockedRequeue(t, s, n, st)
        \/ \E s \in Senders, n \in Nonces : LockedRemoveNext(t, s, n)
        \/ \E s \in Senders : LockedClear(t, s)
        \/ \E stamp \in Stamps : LockedExpireBefore(t, stamp)
        \/ Unlock(t)
        \/ SizeRLock(t)
        \/ SizeRUnlock(t)
        \/ SetSize(t)
        \/ OldestLock(t)
        \/ OldestUnlock(t)
        \/ SetOldest(t)

SpecConc == Init /\ [][NextConc]_vars

(***************************************************************************)
(* Threads under a fair scheduler and a fair lock.  A thread that can take *)
(* a step that waits for nothing takes one in the end; a thread that waits *)
(* for the lock gets it in the end if the lock is free again and again (a  *)
(* waiter of sync.RWMutex is not passed over for ever).  Whether a thread  *)
(* in no call starts one is up to the thread.  The lock is one for the     *)
(* whole map and no step waits for anything but the lock, so the calls     *)
(* here all name one sender.                                               *)
(***************************************************************************)
FairSenders == {"a"}

Proceed(t) ==
    \/ \E s \in FairSenders, n \in Nonces, st \in EdgeStamps : LockedEnqueue(t, s, n, st)
    \/ \E s \in FairSenders, n \in Nonces, st \in EdgeStamps : LockedRequeue(t, s, n, st)
    \/ \E s \in FairSenders, n \in Nonces : LockedRemoveNext(t, s, n)
    \/ \E s \in FairSenders : LockedClear(t, s)
    \/ \E stamp \in EdgeStamps : LockedExpireBefore(t, stamp)
    \/ Unlock(t)
    \/ SizeRUnlock(t)
    \/ SetSize(t)
    \/ OldestUnlock(t)
    \/ SetOldest(t)

NextFair ==
    \E t \in Threads :
        \/ Start(t)
        \/ Lock(t)
        \/ Proceed(t)
        \/ SizeRLock(t)
        \/ OldestLock(t)

Fair ==
    \A t \in Threads :
        /\ WF_vars(Proceed(t))
        /\ SF_vars(Lock(t))
        /\ SF_vars(SizeRLock(t))
        /\ SF_vars(OldestLock(t))

SpecFair == Init /\ [][NextFair]_vars /\ Fair

(***************************************************************************)
(* Producers and consumers: threads that call Enqueue with consecutive     *)
(* nonces per sender, and threads that call RemoveNext, and no other       *)
(* mutator.  sent and got record what the calls returned.                  *)
(***************************************************************************)
\* The nonces a producer may enqueue for s next: any nonce for the first
\* message, then the nonce after the last one enqueued, as long as there is
\* one.
NextNonces(s) ==
    IF sent[s] = <<>> THEN Nonces
    ELSE {n \in Nonces : n = Back(sent[s]).Nonce + 1}

\* The critical section of a producer's Enqueue.  Enqueue and RemoveNext do
\* not read stamps: the producers stamp every message with 0.
Produce(t, s, n) ==
    LET r == EnqueueBody(queues, s, n, 0) IN
    /\ At(t, "Body")
    /\ n \in NextNonces(s)
    /\ Size(r.queues) <= MaxSize
    /\ queues' = r.queues
    /\ sent' = IF r.err = "none"
               THEN [sent EXCEPT ![s] = Append(@, SignedMessage(s, n))]
               ELSE sent
    /\ Goto(t, "Unlock")
    /\ UNCHANGED <<mqSizeGa, mqOldestGa, lk, hist, view, counted, got, cs>>

\* The critical section of a consumer's RemoveNext.
Consume(t, s, n) ==
    LET r == RemoveNextBody(queues, s, n) IN
    /\ At(t, "Body")
    /\ queues' = r.queues
    /\ got' = IF r.found THEN [got EXCEPT ![s] = Append(@, r.msg)] ELSE got
    /\ Goto(t, "Unlock")
    /\ UNCHANGED <<mqSizeGa, mqOldestGa, lk, hist, view, counted, sent, cs>>

NextFlow ==
    \E t \in Threads :
        \/ Start(t)
        \/ Lock(t)
        \/ \E s \in Senders, n \in Nonces : Produce(t, s, n)
        \/ \E s \in Senders, n \in Nonces : Consume(t, s, n)
        \/ Unlock(t)
        \/ SizeRLock(t)
        \/ SizeRUnlock(t)
        \/ SetSize(t)
        \/ OldestLock(t)
        \/ OldestUnlock(t)
        \/ SetOldest(t)

SpecFlow == Init /\ [][NextFlow]_vars

(***************************************************************************)
(* The critical sections step by step: a mutator first reads               *)
(*     q := mq.queues[sender]                                              *)
(* and then, depending on q, writes mq.queues[sender]; ExpireBefore visits *)
(* the senders one by one.  cs[t].want is the map the call would leave if   *)
(* it ran in one step from the state in which it began.                    *)
(***************************************************************************)
\* The map holding s with the list q alone: what a section that has read q
\* knows of the map.
Only(s, q) == Put(EmptyMap, s, q)

Begin(t, c) ==
    /\ At(t, "Body")
    /\ Size(c.want) <= MaxSize
    /\ cs' = [cs EXCEPT ![t] = c]
    /\ Goto(t, IF c.op = "ExpireBefore" /\ c.todo = {} THEN "Unlock" ELSE "Write")
    /\ UNCHANGED <<queues, mqSizeGa, mqOldestGa, lk, hist, view, counted, flow>>

BeginEnqueue(t, s, n, st) ==
    Begin(t, Locals("Enqueue", s, n, st, Lookup(queues, s), {},
                    EnqueueBody(queues, s, n, st).queues))
BeginRequeue(t, s, n, st) ==
    Begin(t, Locals("Requeue", s, n, st, Lookup(queues, s), {},
                    RequeueBody(queues, s, n, st).queues))
BeginRemoveNext(t, s, n) ==
    Begin(t, Locals("RemoveNext", s, n, 0, Lookup(queues, s), {},
                    RemoveNextBody(queues, s, n).queues))
BeginClear(t, s) ==
    Begin(t, Locals("Clear", s, 0, 0, Lookup(queues, s), {},
                    ClearBody(queues, s).queues))
BeginExpireBefore(t, stamp) ==
    Begin(t, Locals("ExpireBefore", "nil", 0, stamp, <<>>, DOMAIN queues,
                    ExpireBeforeBody(queues, stamp).queues))

\* What Enqueue, Requeue, RemoveNext and Clear write after having read c.q.
Written(c) ==
    IF c.op = "Enqueue"
    THEN LET r == EnqueueBody(Only(c.sender, c.q), c.sender, c.nonce, c.stamp) IN
         IF r.err = "none" THEN Put(queues, c.sender, r.queues[c.sender]) ELSE queues
    ELSE IF c.op = "Requeue"
    THEN LET r == RequeueBody(Only(c.sender, c.q), c.sender, c.nonce, c.stamp) IN
         IF r.err = "none" THEN Put(queues, c.sender, r.queues[c.sender]) ELSE queues
    ELSE IF c.op = "RemoveNext"
    THEN LET r == RemoveNextBody(Only(c.sender, c.q), c.sender, c.nonce) IN
         IF r.found THEN Put(queues, c.sender, r.queues[c.sender]) ELSE queues
    ELSE Delete(queues, c.sender)

\* The write, after which the section has nothing left to do with what it
\* has read.
Write(t) ==
    /\ At(t, "Write")
    /\ cs[t].op # "ExpireBefore"
    /\ queues' = Written(cs[t])
    /\ cs' = [cs EXCEPT ![t] = Locals("done", "nil", 0, 0, <<>>, {}, cs[t].want)]
    /\ Goto(t, "Unlock")
    /\ UNCHANGED <<mqSizeGa, mqOldestGa, lk, hist, view, counted, flow>>

\* One round of ExpireBefore's loop, for sender s.
ExpireOne(t, s) ==
    /\ At(t, "Write")
    /\ cs[t].op = "ExpireBefore"
    /\ s \in cs[t].todo
    /\ queues' = IF s \in Expiring(queues, cs[t].stamp) THEN Put(queues, s, <<>>)
                 ELSE queues
    /\ cs' = [cs EXCEPT ![t].todo = @ \ {s}]
    /\ Goto(t, IF cs[t].todo = {s} THEN "Unlock" ELSE "Write")
    /\ UNCHANGED <<mqSizeGa, mqOldestGa, lk, hist, view, counted, flow>>

NextSteps ==
    \E t \in Threads :
        \/ Start(t)
        \/ Lock(t)
        \/ \E s \in Senders, n \in Nonces, st \in EdgeStamps : BeginEnqueue(t, s, n, st)
        \/ \E s \in Senders, n \in Nonces, st \in EdgeStamps : BeginRequeue(t, s, n, st)
        \/ \E s \in Senders, n \in Nonces : BeginRemoveNext(t, s, n)
        \/ \E s \in Senders : BeginClear(t, s)
        \/ \E stamp \in EdgeStamps : BeginExpireBefore(t, stamp)
        \/ Write(t)
        \/ \E s \in Senders : ExpireOne(t, s)
        \/ Unlock(t)
        \/ SizeRLock(t)
        \/ SizeRUnlock(t)
        \/ SetSize(t)
        \/ OldestLock(t)
        \/ OldestUnlock(t)
        \/ SetOldest(t)

SpecSteps == Init /\ [][NextSteps]_vars

(***************************************************************************)
(* Properties of the queue under callers that come one at a time (Spec).   *)
(***************************************************************************)
\* Every other sender's list is what it was.
OthersKept(s) == \A x \in Senders \ {s} : Lookup(queues, x) = Lookup(pre, x)

\* C1: in every reachable state every sender's list has contiguous ascending
\* nonces, q[i+1].nonce = q[i].nonce + 1, nonce 0 and the largest nonce
\* included.
Contiguity ==
    \A s \in DOMAIN queues : \A i \in 1 .. Len(queues[s]) - 1 :
        queues[s][i + 1].Msg.Nonce = queues[s][i].Msg.Nonce + 1

\* What the code keeps instead of C1: contiguity in uint64 arithmetic, under
\* which the largest nonce is followed by 0.
ContiguityModulo ==
    \A s \in DOMAIN queues : \A i \in 1 .. Len(queues[s]) - 1 :
        queues[s][i + 1].Msg.Nonce = NoncePlusOne(queues[s][i].Msg.Nonce)

\* C2: enqueue(message, stamp) on a non-empty list with message.nonce #
\* back.nonce + 1 fails with NonceGap and stores nothing; in every other case
\* it succeeds and the sender's list is the old one with (message, stamp)
\* appended.
EnqueueContract ==
    last.op = "Enqueue" =>
        LET q == Lookup(pre, last.sender) IN
        IF Len(q) > 0 /\ last.nonce # Back(q).Msg.Nonce + 1
        THEN last.err = "NonceGap" /\ queues = pre
        ELSE /\ last.err = "none"
             /\ Lookup(queues, last.sender) =
                    Append(q, QueuedMessage(SignedMessage(last.sender, last.nonce), last.stamp))
             /\ OthersKept(last.sender)

\* What the code does instead of C2: the same with back.nonce + 1 taken in
\* uint64 arithmetic, so that 0 is accepted behind the largest nonce.
EnqueueContractModulo ==
    last.op = "Enqueue" =>
        LET q == Lookup(pre, last.sender) IN
        IF Len(q) > 0 /\ last.nonce # (Back(q).Msg.Nonce + 1) % NonceMod
        THEN last.err = "NonceGap" /\ queues = pre
        ELSE /\ last.err = "none"
             /\ Lookup(queues, last.sender) =
                    Append(q, QueuedMessage(SignedMessage(last.sender, last.nonce), last.stamp))
             /\ OthersKept(last.sender)

\* C3: requeue(message, stamp) on a non-empty list with message.nonce #
\* front.nonce - 1 fails with NonceGap and changes nothing; in every other
\* case it succeeds and (message, stamp) is the new front, the previous
\* entries and their stamps following in order.
RequeueContract ==
    last.op = "Requeue" =>
        LET q == Lookup(pre, last.sender) IN
        IF Len(q) > 0 /\ last.nonce # Front(q).Msg.Nonce - 1
        THEN last.err = "NonceGap" /\ queues = pre
        ELSE /\ last.err = "none"
             /\ Lookup(queues, last.sender) =
                    <<QueuedMessage(SignedMessage(last.sender, last.nonce), last.stamp)>> \o q
             /\ OthersKept(last.sender)

\* What the code does instead of C3: the same with front.nonce - 1 taken in
\* uint64 arithmetic, so that the largest nonce is accepted in front of 0.
RequeueContractModulo ==
    last.op = "Requeue" =>
        LET q == Lookup(pre, last.sender) IN
        IF Len(q) > 0 /\ last.nonce # (Front(q).Msg.Nonce + NonceMod - 1) % NonceMod
        THEN last.err = "NonceGap" /\ queues = pre
        ELSE /\ last.err = "none"
             /\ Lookup(queues, last.sender) =
                    <<QueuedMessage(SignedMessage(last.sender, last.nonce), last.stamp)>> \o q
             /\ OthersKept(last.sender)

\* C4: remove_next(sender, expected_nonce): on a non-empty list it pops
\* exactly the front and returns (front message, true, no error) when the
\* expected nonce is the front's, returns (none, false, no error) when it is
\* smaller, (none, false, Inconsistency) when it is greater; on an empty or
\* absent list it returns (none, false, no error).  Where it does not pop,
\* the queue is unchanged.
RemoveNextContract ==
    last.op = "RemoveNext" =>
        LET q == Lookup(pre, last.sender) IN
        IF Len(q) = 0
        THEN last.msg = NilMsg /\ ~last.found /\ last.err = "none" /\ queues = pre
        ELSE IF last.nonce = Front(q).Msg.Nonce
        THEN /\ last.msg = Front(q).Msg /\ last.found /\ last.err = "none"
             /\ Lookup(queues, last.sender) = Tail(q)
             /\ OthersKept(last.sender)
        ELSE IF last.nonce < Front(q).Msg.Nonce
        THEN last.msg = NilMsg /\ ~last.found /\ last.err = "none" /\ queues = pre
        ELSE last.msg = NilMsg /\ ~last.found /\ last.err = "Inconsistency" /\ queues = pre

\* C4's case: a RemoveNext that found a list of two with a greater expected
\* nonce than the front's, and returned Inconsistency.
RemoveNextWitness ==
    /\ last.op = "RemoveNext"
    /\ last.err = "Inconsistency"
    /\ Len(Lookup(pre, last.sender)) = 2
    /\ last.nonce > Front(Lookup(pre, last.sender)).Msg.Nonce

\* C5: expire_before(k) empties the whole list of every sender whose list is
\* non-empty with front.stamp < k and returns that sender mapped to all its
\* messages, front to back; every other sender keeps its list, interior
\* stamps below k or not, and is no key of the returned map.
ExpireBeforeContract ==
    last.op = "ExpireBefore" =>
        \A s \in Senders :
            LET q == Lookup(pre, s) IN
            IF Len(q) > 0 /\ Front(q).Stamp < last.stamp
            THEN /\ Lookup(queues, s) = <<>>
                 /\ s \in DOMAIN last.expired
                 /\ last.expired[s] = [i \in 1 .. Len(q) |-> q[i].Msg]
            ELSE /\ Lookup(queues, s) = q
                 /\ s \notin DOMAIN last.expired

\* C5's cases: an ExpireBefore that expired a list of two whose second stamp
\* is not below the threshold ...
ExpireBeforeWitness ==
    /\ last.op = "ExpireBefore"
    /\ \E s \in DOMAIN last.expired :
          /\ Len(pre[s]) = 2
          /\ pre[s][1].Stamp < last.stamp
          /\ pre[s][2].Stamp >= last.stamp

\* ... and one that kept a list of two whose second stamp is below the
\* threshold.
ExpireBeforeKeeps ==
    /\ last.op = "ExpireBefore"
    /\ \E s \in DOMAIN pre :
          /\ Len(pre[s]) = 2
          /\ pre[s][1].Stamp >= last.stamp
          /\ pre[s][2].Stamp < last.stamp
          /\ queues[s] = pre[s]

RemovalIdempotent ==
    (last.op = "RemoveNext" /\ before.call.op = "RemoveNext" /\ before.call.found) =>
        /\ before.call.msg.Nonce = last.nonce
        /\ ~last.found
        /\ last.err = "none"
        /\ queues = pre

\* What the code keeps instead of C7: the same unless the first call popped
\* the largest nonce from in front of nonce 0.
RemovalIdempotentUnlessWrapped ==
    (/\ last.op = "RemoveNext" /\ before.call.op = "RemoveNext" /\ before.call.found
     /\ ~(Len(Lookup(pre, last.sender)) > 0
          /\ Front(Lookup(pre, last.sender)).Msg.Nonce < last.nonce)) =>
        /\ before.call.msg.Nonce = last.nonce
        /\ ~last.found
        /\ last.err = "none"
        /\ queues = pre

\* C8: oldest() is the smallest stamp of all queued messages, and 0 whenever
\* no message is queued.
OldestIsMinimum ==
    Oldest(queues) = IF StampsOf(queues) = {} THEN 0 ELSE Min(StampsOf(queues))

\* C9: queues() is exactly the set of senders that have at least one message
\* queued.
QueuesAreNonEmpty ==
    Queues(queues) = {s \in Senders : Len(Lookup(queues, s)) > 0}

\* C12: clear(sender) returns true exactly when the sender had at least one
\* message before the call and removes the sender's key; afterwards
\* largest_nonce(sender) is (0, false), list(sender) is empty and queues()
\* does not hold the sender.
ClearContract ==
    last.op = "Clear" =>
        /\ last.ok = (Len(Lookup(pre, last.sender)) > 0)
        /\ last.sender \notin DOMAIN queues
        /\ LargestNonce(queues, last.sender) = [largest |-> 0, found |-> FALSE]
        /\ List(queues, last.sender) = <<>>
        /\ last.sender \notin Queues(queues)

\* C12's case: a Clear of a drained sender, whose key was in the map with an
\* empty list, while the other sender had a message queued.
ClearWitness ==
    /\ last.op = "Clear"
    /\ last.sender \in DOMAIN pre
    /\ pre[last.sender] = <<>>
    /\ ~last.ok
    /\ \E s \in DOMAIN queues : Len(queues[s]) > 0

\* The positions of all queued messages: (sender, index) pairs.
Positions(qs) ==
    {p \in Senders \X (1 .. MaxSize) : p[2] <= Len(Lookup(qs, p[1]))}

\* C15: size() is the sum of the lengths of all senders' lists;
\* largest_nonce(sender) is (back.nonce, true) for a non-empty list and
\* (0, false) for an absent or drained sender, which adds 0 to size().
SizeAndLargestNonce ==
    /\ Size(queues) = Cardinality(Positions(queues))
    /\ \A s \in Senders :
          LET q == Lookup(queues, s) IN
          LargestNonce(queues, s) =
              IF q = <<>> THEN [largest |-> 0, found |-> FALSE]
                          ELSE [largest |-> q[Len(q)].Msg.Nonce, found |-> TRUE]
    /\ (last.op = "Enqueue" /\ last.err = "none") =>
          LargestNonce(queues, last.sender) = [largest |-> last.nonce, found |-> TRUE]
    /\ last.op = "ExpireBefore" =>
          \A s \in DOMAIN last.expired :
              LargestNonce(queues, s) = [largest |-> 0, found |-> FALSE]

\* C15's case: ExpireBefore has drained one sender, whose key is still in the
\* map, and the other sender has a message queued.
SizeWitness ==
    /\ last.op = "ExpireBefore"
    /\ \E s \in DOMAIN last.expired : s \in DOMAIN queues /\ queues[s] = <<>>
    /\ Size(queues) = 1

\* C16: a remove_next that pops the last entry of a sender's list removes
\* the sender's key from the map, as clear does; a key with an empty list is
\* left by expire_before only.
EmptiedKeyRemoved ==
    /\ (last.op = "RemoveNext" /\ last.found /\ Len(Lookup(pre, last.sender)) = 1) =>
          last.sender \notin DOMAIN queues
    /\ last.op = "Clear" => last.sender \notin DOMAIN queues
    /\ \A s \in DOMAIN queues :
          (queues[s] = <<>> /\ Lookup(pre, s) # <<>>) => last.op = "ExpireBefore"

\* What the code keeps instead of C16: Clear removes the key, and a key with an
\* empty list is left by ExpireBefore and by the RemoveNext that pops the last
\* entry.
EmptiedKeyKept ==
    /\ (last.op = "RemoveNext" /\ last.found /\ Len(Lookup(pre, last.sender)) = 1) =>
          (last.sender \in DOMAIN queues /\ queues[last.sender] = <<>>)
    /\ last.op = "Clear" => last.sender \notin DOMAIN queues
    /\ \A s \in DOMAIN queues :
          (queues[s] = <<>> /\ Lookup(pre, s) # <<>>) =>
              last.op \in {"ExpireBefore", "RemoveNext"}

\* C19: no nonce wrap-around: a requeue onto a list whose front nonce is 0
\* and an enqueue onto a list whose back nonce is the largest fail with
\* NonceGap whatever the message's nonce, and no list holds the largest nonce
\* directly in front of nonce 0.
NoWrapAround ==
    /\ (last.op = "Requeue" /\ Lookup(pre, last.sender) # <<>>
            /\ Front(Lookup(pre, last.sender)).Msg.Nonce = 0) =>
          (last.err = "NonceGap" /\ queues = pre)
    /\ (last.op = "Enqueue" /\ Lookup(pre, last.sender) # <<>>
            /\ Back(Lookup(pre, last.sender)).Msg.Nonce = NonceMod - 1) =>
          (last.err = "NonceGap" /\ queues = pre)
    /\ \A s \in DOMAIN queues : \A i \in 1 .. Len(queues[s]) - 1 :
          ~(queues[s][i].Msg.Nonce = NonceMod - 1 /\ queues[s][i + 1].Msg.Nonce = 0)

\* The entries of old that are still in new are where they were relative to
\* each other and have their stamps: new is old, or old without its front, or
\* old with one entry more at one end, or empty.
EntriesKept(old, new) ==
    \/ new = old
    \/ new = <<>>
    \/ old # <<>> /\ new = Tail(old)
    \/ new # <<>> /\ Tail(new) = old
    \/ new # <<>> /\ SubSeq(new, 1, Len(new) - 1) = old

\* C20: enqueue, requeue, remove_next and clear for sender s leave the list
\* of every other sender as it was, whether they succeed or fail; no
\* operation changes the stamp or the relative position of an entry that
\* stays queued; largest_nonce, queues, size, oldest and list leave the map
\* as it was.
PerSenderFrame ==
    /\ last.op \in {"Enqueue", "Requeue", "RemoveNext", "Clear"} =>
          OthersKept(last.sender)
    /\ last.op # "none" =>
          \A s \in Senders : EntriesKept(Lookup(pre, s), Lookup(queues, s))
    /\ last.op \in {"LargestNonce", "Queues", "Size", "Oldest", "List"} =>
          queues = pre

\* C20's case: a Requeue in front of a queued entry whose stamp differs from
\* the new message's, while the other sender's key is in the map.
FrameWitness ==
    /\ last.op = "Requeue" /\ last.err = "none"
    /\ Len(queues[last.sender]) = 2
    /\ queues[last.sender][2].Stamp # last.stamp
    /\ \E s \in DOMAIN queues : s # last.sender

\* C14: each expire_before adds to the expired counter, once per expired
\* sender, the number of that sender's messages; the counter's total is the
\* number of messages returned in all expire_before result maps; no other
\* operation (remove_next and clear in particular) changes the counter.
ExpiredCounted ==
    /\ mqExpireCt = expiredReturned
    /\ last.op = "ExpireBefore" =>
          /\ DOMAIN last.inc = DOMAIN last.expired
          /\ \A s \in DOMAIN last.inc :
                last.inc[s] = Len(last.expired[s]) /\ last.inc[s] = Len(pre[s])

ExpiredAccounting ==
    /\ []ExpiredCounted
    /\ [][last'.op # "ExpireBefore" => mqExpireCt' = mqExpireCt]_vars

\* C14's case: an ExpireBefore that expired both senders and was not the
\* first to expire a message.
ExpiredWitness ==
    /\ last.op = "ExpireBefore"
    /\ DOMAIN last.inc = Senders
    /\ mqExpireCt = MaxExpired

\* C13: list(sender) returns an independent copy: whatever the caller does
\* to the returned slice or its entries (replace, remove, reorder, set an
\* entry's stamp or its message's nonce), the queue is as it was when List
\* returned, and a second list(sender) returns what the first returned.
ListIsIndependent ==
    view # NoView =>
        /\ queues = pre
        /\ List(queues, view.sender) = view.orig

\* What the code keeps instead of C13: the slice and the QueuedMessage structs
\* are the caller's, so the lists' lengths, the stamps and the senders are as
\* they were; the nonces are not.
ListIsShallow ==
    view # NoView =>
        /\ DOMAIN queues = DOMAIN pre
        /\ \A s \in DOMAIN queues :
              /\ Len(queues[s]) = Len(pre[s])
              /\ \A i \in 1 .. Len(queues[s]) :
                    /\ queues[s][i].Stamp = pre[s][i].Stamp
                    /\ queues[s][i].Msg.From = pre[s][i].Msg.From
                    /\ s # view.sender => queues[s][i] = pre[s][i]

(***************************************************************************)
(* Properties of the queue under concurrent callers (SpecConc).            *)
(***************************************************************************)
AllReturned == \A t \in Threads : At(t, "idle")

\* C10: under any interleaving of concurrent mutators, whenever all calls
\* have returned, the last value set on the size gauge is size() and the last
\* value set on the oldest gauge is (the int64 of) oldest() of the queue.
GaugesCurrent ==
    AllReturned =>
        /\ mqSizeGa = Size(queues)
        /\ mqOldestGa = ToInt64(Oldest(queues))

\* How often m is in seq.
Count(m, seq) == Cardinality({i \in 1 .. Len(seq) : seq[i] = m})

\* The messages queued for s, in list order.
Queued(s) == LET q == Lookup(queues, s) IN [i \in 1 .. Len(q) |-> q[i].Msg]

\* C11: with threads enqueueing consecutive nonces per sender and threads
\* calling remove_next, and no clear, requeue or expire_before, in every
\* state of every interleaving each list has contiguous ascending nonces
\* and every message enqueued with success is either still in its sender's
\* list or was returned with found = true by exactly one remove_next: none
\* is lost, none is returned twice, none is returned and still queued.
Conservation ==
    \A s \in Senders :
        /\ \A i \in 1 .. Len(Lookup(queues, s)) - 1 :
              queues[s][i + 1].Msg.Nonce = queues[s][i].Msg.Nonce + 1
        /\ \A k \in 1 .. Len(sent[s]) :
              Count(sent[s][k], Queued(s)) + Count(sent[s][k], got[s]) = 1
        /\ \A k \in 1 .. Len(got[s]) : Count(got[s][k], sent[s]) = 1
        /\ \A k \in 1 .. Len(Queued(s)) : Count(Queued(s)[k], sent[s]) = 1

\* C11's case: of three messages enqueued for one sender, two were returned
\* and one is queued, while one thread is in its critical section and the
\* other is waiting for the lock.
ConservationWitness ==
    \E s \in Senders :
        /\ Len(sent[s]) = 3
        /\ Len(got[s]) = 2
        /\ Len(Lookup(queues, s)) = 1
        /\ \E t, u \in Threads : At(t, "Unlock") /\ At(u, "Lock")

\* The threads that are inside a critical section of a mutator or of the
\* hook's Oldest, and those inside the hook's Size.
Writing == {t \in Threads : th[t].pc \in {"Body", "Write", "Unlock", "OldestUnlock"}}
Reading == {t \in Threads : th[t].pc = "SizeRUnlock"}

\* C17: every mutator reads and writes the map inside one exclusive
\* critical section and every accessor reads inside one shared or exclusive
\* one: a thread inside an exclusive section is alone inside any section,
\* so no thread reads or writes while a mutation is half applied; what a
\* mutator has read is still in the map when it writes; and each call
\* leaves the map it would leave if it ran in one step, alone, from the
\* state in which its section began: the calls take effect one after the
\* other in the order in which they took the lock.
Linearized ==
    /\ \A t \in Writing : lk.writer = t /\ Writing = {t} /\ Reading = {}
    /\ Reading = lk.readers
    /\ Reading # {} => lk.writer = NoThread
    /\ \A t \in Threads :
          /\ (At(t, "Write") /\ cs[t].op # "ExpireBefore") =>
                /\ Lookup(queues, cs[t].sender) = cs[t].q
                /\ Written(cs[t]) = cs[t].want
          /\ (At(t, "Write") /\ cs[t].op = "ExpireBefore") =>
                /\ DOMAIN queues = DOMAIN cs[t].want
                /\ \A s \in DOMAIN queues :
                      cs[t].want[s] =
                          IF s \in cs[t].todo /\ s \in Expiring(queues, cs[t].stamp)
                          THEN <<>> ELSE queues[s]
          /\ (At(t, "Unlock") /\ cs[t].op # "none") => queues = cs[t].want

\* C17's case: one thread is in the middle of ExpireBefore's loop, having
\* emptied one sender's list and not yet the other's, which it will, while
\* the other thread waits for the lock.
LinearizedWitness ==
    \E t, u \in Threads :
        /\ At(t, "Write") /\ cs[t].op = "ExpireBefore"
        /\ Cardinality(cs[t].todo) = 1
        /\ queues # cs[t].want
        /\ \E s \in DOMAIN queues : queues[s] = <<>>
        /\ th[u].pc \in {"Lock", "OldestLock", "SizeRLock"}

\* The threads that wait for the lock.
Waiting == {t \in Threads : th[t].pc \in {"Lock", "SizeRLock", "OldestLock"}}

\* No thread waits for a lock it holds itself: the hook's Size and Oldest
\* come after the mutator's Unlock.
NoSelfWait == \A t \in Waiting : lk.writer # t /\ t \notin lk.readers

\* A thread that waits can go on as soon as those inside have left, and
\* those inside wait for nothing: there is no cycle of waiting threads.
NoWaitCycle ==
    Waiting # {} =>
        \/ \E t \in Waiting : ENABLED Lock(t) \/ ENABLED SizeRLock(t) \/ ENABLED OldestLock(t)
        \/ \E u \in Threads \ Waiting : ENABLED Proceed(u)

\* C18: under fair scheduling every call returns in the end, whatever the
\* other thread does; no thread waits for a lock it holds itself and no
\* cycle of waiting threads arises.
EveryCallReturns ==
    /\ []NoSelfWait
    /\ []NoWaitCycle
    /\ \A t \in Threads : (th[t].pc # "idle") ~> (th[t].pc = "idle")

\* C18's case: a thread is in its hook, waiting for the exclusive lock of
\* Oldest, while the other thread is inside its critical section.
ReturnsWitness ==
    \E t, u \in Threads :
        /\ At(t, "OldestLock")
        /\ At(u, "Unlock")
        /\ lk.writer = u

====
